---- MODULE Spec2Model ----
(***************************************************************************)
(* A model of the WildFireFighters simulation core: the fire map and its   *)
(* spread, the player update, water-to-fire suppression, the terminal      *)
(* check, and the React scheduling that runs them (state updaters, the     *)
(* render closures the handlers read, the animation-frame callback).       *)
(*                                                                         *)
(* Numbers are fixed point, chosen so that the rates of the source are     *)
(* whole numbers:                                                          *)
(*   lengths      thousandths of a world unit                              *)
(*   deltaTime    tenths of a second                                       *)
(*   intensity    thousandths (1000 is intensity 1)                        *)
(*   waterLevel   units (100 is maxWater)                                  *)
(*   rotation     steps of 0.192 rad, the turn of one tenth of a second    *)
(*                (rotationSpeed * 60 * 0.1)                               *)
(*   random draws thousandths (Math.random() in [0,1) is 0..999)           *)
(*   gameSpeed    nine-hundredths (900 is gameSpeed 1, 1620 is 1.8)        *)
(***************************************************************************)
EXTENDS Integers, Sequences, FiniteSets, TLC

VARIABLES
  gameState,     \* the value of the gameState hook (all queued updaters applied)
  showTutorial,  \* the value of the showTutorial hook
  rendered,      \* what the closures of the last committed render captured
  scheduled,     \* what the gameLoop held by the pending animation frame captured
  scene,         \* the fire meshes that are children of the THREE scene
  released,      \* per fire mesh, how many times it was disposed and removed
  lastDelta,     \* deltaTime of the last frame that ran the simulation
  lastKeys,      \* keysRef.current during that frame
  lastDraws,     \* the Math.random() values its spread stage was given
  ticks,         \* frames that ran the simulation so far
  starts         \* calls of startGame so far

vars == <<gameState, showTutorial, rendered, scheduled, scene, released,
          lastDelta, lastKeys, lastDraws, ticks, starts>>

-----------------------------------------------------------------------------
(* Program constants.                                                      *)

WORLD_SIZE == 40
GRID_SIZE == 2
WATER_RANGE == 8
REFILL_RATE == 2
FIRE_SPREAD_RATE == 4
INITIAL_FIRES == 5

(* Bounds of the model.                                                    *)
MaxTicks == 2
MaxStarts == 2

-----------------------------------------------------------------------------
(* Arithmetic helpers.                                                     *)

Abs(n) == IF n < 0 THEN -n ELSE n
Min(a, b) == IF a < b THEN a ELSE b
Max(a, b) == IF a > b THEN a ELSE b

\* a / b rounded to the nearest integer (b > 0), the fixed-point product.
Round(a, b) == (2 * a + b) \div (2 * b)

\* Math.sqrt on a non-negative integer, rounded down.
RECURSIVE SqrtBetween(_, _, _)
SqrtBetween(n, lo, hi) ==
  IF lo >= hi THEN lo
  ELSE LET mid == (lo + hi + 1) \div 2
       IN  IF mid * mid <= n THEN SqrtBetween(n, mid, hi)
           ELSE SqrtBetween(n, lo, mid - 1)

Sqrt(n) == SqrtBetween(n, 0, 46000)

\* Math.sqrt(dx ** 2 + dz ** 2) < r, without leaving the 32-bit integers.
DistLess(dx, dz, r) ==
  /\ Abs(dx) < r
  /\ Abs(dz) < r
  /\ dx * dx + dz * dz < r * r

\* Math.sqrt(dx ** 2 + dz ** 2) > r
DistGreater(dx, dz, r) ==
  \/ Abs(dx) > r
  \/ Abs(dz) > r
  \/ dx * dx + dz * dz > r * r

\* 1000 * Math.sin(0.192 * h) and 1000 * Math.cos(0.192 * h), h = 0..210.
SinTab ==
  <<
    0, 191, 375, 545, 695, 819, 914, 974, 999, 988, 940, 857, 743, 602, 438,
    259, 70, -122, -309, -485, -643, -777, -883, -956, -995, -996, -961, -891, -788, -656,
    -500, -325, -139, 53, 242, 423, 588, 732, 848, 934, 985, 1000, 978, 920, 829,
    707, 559, 390, 207, 17, -174, -359, -531, -683, -809, -907, -970, -999, -990, -945,
    -866, -754, -615, -453, -275, -86, 105, 293, 470, 630, 767, 875, 951, 993, 997,
    966, 898, 798, 668, 514, 341, 155, -36, -226, -408, -575, -720, -839, -928, -982,
    -1000, -981, -927, -838, -718, -573, -406, -224, -34, 158, 343, 516, 670, 799, 899,
    966, 998, 992, 951, 874, 765, 628, 468, 291, 103, -89, -277, -455, -617, -756,
    -867, -946, -991, -999, -970, -906, -808, -681, -528, -357, -172, 19, 210, 392, 561,
    708, 830, 921, 979, 1000, 984, 933, 847, 730, 586, 421, 240, 50, -141, -328,
    -502, -658, -789, -892, -962, -996, -994, -956, -882, -776, -641, -483, -307, -120, 72,
    261, 440, 604, 745, 858, 940, 988, 999, 974, 913, 818, 693, 543, 372, 188,
    -2, -193, -377, -547, -696, -821, -915, -975, -999, -987, -939, -856, -741, -600, -436,
    -256, -67, 125, 312, 487, 645, 779, 884, 957, 995, 996, 960, 890, 786, 654,
    497
  >>

CosTab ==
  <<
    1000, 982, 927, 839, 719, 574, 407, 225, 35, -157, -342, -515, -669, -799, -899,
    -966, -998, -993, -951, -874, -766, -629, -469, -292, -104, 87, 276, 454, 616, 755,
    866, 946, 990, 999, 970, 906, 809, 682, 529, 358, 173, -18, -208, -391, -560,
    -708, -829, -921, -978, -1000, -985, -933, -848, -731, -587, -422, -241, -52, 140, 326,
    501, 657, 789, 891, 962, 996, 994, 956, 883, 777, 642, 484, 308, 121, -71,
    -260, -439, -603, -744, -858, -940, -988, -999, -974, -913, -818, -694, -544, -373, -190,
    1, 192, 376, 546, 696, 820, 914, 975, 999, 987, 939, 856, 742, 601, 437,
    257, 68, -123, -310, -486, -644, -778, -884, -957, -995, -996, -961, -890, -787, -655,
    -499, -324, -138, 54, 244, 424, 589, 733, 849, 934, 985, 1000, 978, 920, 828,
    706, 558, 389, 206, 16, -176, -360, -532, -683, -810, -907, -971, -999, -990, -945,
    -865, -753, -614, -452, -274, -85, 107, 294, 471, 631, 767, 876, 952, 993, 997,
    965, 898, 797, 667, 513, 340, 154, -37, -227, -409, -576, -721, -840, -928, -982,
    -1000, -981, -926, -837, -718, -571, -404, -222, -32, 159, 344, 517, 671, 800, 900,
    967, 998, 992, 950, 873, 764, 627, 467, 290, 102, -90, -278, -457, -618, -757,
    -867
  >>

Sin(h) == IF h >= 0 THEN SinTab[h + 1] ELSE -SinTab[1 - h]
Cos(h) == CosTab[Abs(h) + 1]
MaxRotation == Len(SinTab) - 1

-----------------------------------------------------------------------------
(* The initial gameState of the component, and the vectors of the source.  *)

refillStations ==
  << [x |-> -15000, z |-> -15000, radius |-> 3000],
     [x |->  15000, z |-> -15000, radius |-> 3000],
     [x |-> -15000, z |->  15000, radius |-> 3000],
     [x |->  15000, z |->  15000, radius |-> 3000] >>

\* windDirection (0.7, 0, 0.3), in thousandths
windDirection == [x |-> 700, z |-> 300]
\* windSpeed 1.2, in tenths
windSpeed == 12

initialPlayer ==
  [x |-> 0, z |-> 0, rotation |-> 0, waterLevel |-> 100, maxWater |-> 100,
   isRefilling |-> FALSE]

\* Math.sqrt((a.x - b.x) ** 2 + (a.y - b.y) ** 2 + (a.z - b.z) ** 2) < r; every
\* y of the simulation is 0.
distance3DLess(a, b, r) == DistLess(a.x - b.x, a.z - b.z, r)

\* (dx, 0, dz) divided by its length len: a unit vector in thousandths, or
\* the zero vector (lines 495-496).
scaled(dx, dz, len) ==
  IF len > 0
    THEN [x |-> Round(dx * 1000, len), z |-> Round(dz * 1000, len)]
    ELSE [x |-> 0, z |-> 0]

normalize3D(dx, dz) == scaled(dx, dz, Sqrt(dx * dx + dz * dz))

\* `${Math.floor(x / GRID_SIZE)}-${Math.floor(z / GRID_SIZE)}`
gridKey(x, z) ==
  ToString(x \div (GRID_SIZE * 1000)) \o "-" \o ToString(z \div (GRID_SIZE * 1000))

\* Math.round in the place of Math.floor: the stored coordinates of a cell
\* leave the grid square of its key (C3).
gridRound(v) == ((v + GRID_SIZE * 500) \div (GRID_SIZE * 1000)) * (GRID_SIZE * 1000)

\* Math.floor(v / GRID_SIZE) * GRID_SIZE
gridFloor(v) == (v \div (GRID_SIZE * 1000)) * (GRID_SIZE * 1000)

-----------------------------------------------------------------------------
(* updatePlayer: rotation, movement with tree collision, boundary clamp,   *)
(* water depletion and refill.  keys is keysRef.current, trees is the tree *)
(* list of the render that created the running gameLoop.                   *)

\* The normalised moveVector, in thousandths.
moveVector(keys) ==
  LET mx == (IF "d" \in keys THEN 1 ELSE 0) - (IF "a" \in keys THEN 1 ELSE 0)
      mz == (IF "s" \in keys THEN 1 ELSE 0) - (IF "w" \in keys THEN 1 ELSE 0)
  IN  IF mx # 0 /\ mz # 0 THEN [x |-> mx * 707, z |-> mz * 707]
      ELSE [x |-> mx * 1000, z |-> mz * 1000]

\* The loop over gameState.trees (lines 540-555): the trunk test breaks out
\* of the loop, the foliage flag accumulates until then.
RECURSIVE treeCollision(_, _, _, _, _)
treeCollision(trees, i, newX, newZ, inFoliage) ==
  IF i > Len(trees) THEN [trunkCollision |-> FALSE, inFoliage |-> inFoliage]
  ELSE LET tree == trees[i]
           dx == newX - tree.x
           dz == newZ - tree.z
       IN  IF DistLess(dx, dz, 400 + 1000)
             THEN [trunkCollision |-> TRUE, inFoliage |-> inFoliage]
             ELSE treeCollision(trees, i + 1, newX, newZ,
                                inFoliage \/ DistLess(dx, dz, tree.radius + 1000))

\* firstStation with a player at the radius itself inside (C28).
RECURSIVE firstStationAtRadius(_, _)
firstStationAtRadius(p, i) ==
  IF i > Len(refillStations) THEN 0
  ELSE IF ~DistGreater(p.x - refillStations[i].x, p.z - refillStations[i].z,
                       refillStations[i].radius) THEN i
  ELSE firstStationAtRadius(p, i + 1)

\* The first station the player is inside of, or 0 (lines 612-619).
RECURSIVE firstStation(_, _)
firstStation(p, i) ==
  IF i > Len(refillStations) THEN 0
  ELSE IF distance3DLess(p, refillStations[i], refillStations[i].radius) THEN i
  ELSE firstStation(p, i + 1)

\* The moveVector mv rotated by the player's rotation (lines 527-530), in
\* millionths.
rotate(mv, rotation) ==
  [x |-> mv.x * Cos(rotation) - mv.z * Sin(rotation),
   z |-> mv.x * Sin(rotation) + mv.z * Cos(rotation)]

\* newX and newZ (lines 533-534): baseSpeed 5 per second is 0.5 per tenth.
candidate(player, rotated, deltaTime) ==
  [x |-> player.x + Round(rotated.x * deltaTime, 2000),
   z |-> player.z + Round(rotated.z * deltaTime, 2000)]

\* applyMove without the trunk test of line 558: a trunk slows the player
\* as foliage does (C15).
applyMoveThroughTrunk(player, rotated, deltaTime, hit) ==
  IF hit.inFoliage \/ hit.trunkCollision
    THEN [player EXCEPT !.x = player.x + Round(rotated.x * deltaTime, 4000),
                        !.z = player.z + Round(rotated.z * deltaTime, 4000)]
    ELSE [player EXCEPT !.x = candidate(player, rotated, deltaTime).x,
                        !.z = candidate(player, rotated, deltaTime).z]

\* Lines 558-569: no move on a trunk, half speed in foliage.
applyMove(player, rotated, deltaTime, hit) ==
  IF hit.trunkCollision THEN player
  ELSE IF hit.inFoliage
    THEN [player EXCEPT !.x = player.x + Round(rotated.x * deltaTime, 4000),
                        !.z = player.z + Round(rotated.z * deltaTime, 4000)]
    ELSE [player EXCEPT !.x = candidate(player, rotated, deltaTime).x,
                        !.z = candidate(player, rotated, deltaTime).z]

\* A move without the boundary checks: the player leaves the world (C12).
clampNone(player) == player

\* Boundary checks (lines 572-574).
clampToWorld(player) ==
  [player EXCEPT
     !.x = Max(-(WORLD_SIZE \div 2 - 2) * 1000,
               Min((WORLD_SIZE \div 2 - 2) * 1000, player.x)),
     !.z = Max(-(WORLD_SIZE \div 2 - 2) * 1000,
               Min((WORLD_SIZE \div 2 - 2) * 1000, player.z))]

collisionAt(trees, c) == treeCollision(trees, 1, c.x, c.z, FALSE)

moveBy(player, rotated, deltaTime, trees) ==
  clampToWorld(
    applyMove(player, rotated, deltaTime,
              collisionAt(trees, candidate(player, rotated, deltaTime))))

\* Lines 515-575.
movePlayer(player, deltaTime, keys, trees) ==
  IF moveVector(keys).x = 0 /\ moveVector(keys).z = 0 THEN player
  ELSE moveBy(player, rotate(moveVector(keys), player.rotation), deltaTime, trees)

\* Arrow key rotation (lines 507-512).
turnPlayer(player, deltaTime, keys) ==
  [player EXCEPT !.rotation =
     player.rotation
       + (IF "arrowleft" \in keys THEN deltaTime ELSE 0)
       - (IF "arrowright" \in keys THEN deltaTime ELSE 0)]

\* shootWater without the Math.max(0, ...) of line 586: the level goes below
\* 0 (C2).
shootWaterUnfloored(player, deltaTime, keys) ==
  IF " " \in keys /\ player.waterLevel > 0
    THEN [player EXCEPT !.waterLevel = player.waterLevel - 3 * deltaTime]
    ELSE player

\* Water shooting (lines 585-586): 30 per second is 3 per tenth.
shootWater(player, deltaTime, keys) ==
  IF " " \in keys /\ player.waterLevel > 0
    THEN [player EXCEPT !.waterLevel = Max(0, player.waterLevel - 3 * deltaTime)]
    ELSE player

\* Lines 611-619, station being the first station the player is inside of:
\* REFILL_RATE * 60 per second is REFILL_RATE * 6 per tenth.
refillAt(player, station, deltaTime) ==
  IF station > 0
    THEN [player EXCEPT !.isRefilling = TRUE,
                        !.waterLevel = Min(player.maxWater,
                                           player.waterLevel + REFILL_RATE * deltaTime * 6)]
    ELSE [player EXCEPT !.isRefilling = FALSE]

refillWater(player, deltaTime) ==
  refillAt(player, firstStation(player, 1), deltaTime)

updatePlayer(player, deltaTime, keys, trees) ==
  refillWater(
    shootWater(
      movePlayer(turnPlayer(player, deltaTime, keys), deltaTime, keys, trees),
      deltaTime, keys),
    deltaTime)

-----------------------------------------------------------------------------
(* The fire map.  A Map iterates in insertion order and visits the entries *)
(* inserted while it iterates, so the map is a sequence of cells; a cell   *)
(* is [key, x, z, intensity, spreadTime, mesh].  The part of the THREE     *)
(* scene the fire code touches travels with it: w is a record              *)
(* [fires, scene, released], released[m] counting the releases of mesh m;  *)
(* a fresh mesh is the next index of released.                             *)

has(fires, key) == \E j \in 1..Len(fires) : fires[j].key = key

indexOf(fires, key) == CHOOSE j \in 1..Len(fires) : fires[j].key = key

\* fires.set(key, cell): a present key keeps its place in the order.
mapSet(fires, cell) ==
  IF has(fires, cell.key)
    THEN [fires EXCEPT ![indexOf(fires, cell.key)] = cell]
    ELSE Append(fires, cell)

\* new THREE.Points(...) followed by scene.add(fireMesh)
addMesh(w) ==
  [w EXCEPT !.scene = w.scene \cup {Len(w.released) + 1},
            !.released = Append(w.released, 0)]

\* geometry, material and texture dispose() followed by scene.remove(mesh)
releaseMesh(w, mesh) ==
  [w EXCEPT !.scene = w.scene \ {mesh},
            !.released[mesh] = w.released[mesh] + 1]

\* The values a run of Math.random() calls returns are given as
\* [prefix, cycle]: the prefix, then the cycle over and over.  draw is the
\* value of call number n, counted from 0.
draw(draws, n) ==
  IF n < Len(draws.prefix) THEN draws.prefix[n + 1]
  ELSE draws.cycle[((n - Len(draws.prefix)) % Len(draws.cycle)) + 1]

directions ==
  << [x |-> GRID_SIZE * 1000, z |-> 0],
     [x |-> -GRID_SIZE * 1000, z |-> 0],
     [x |-> 0, z |-> GRID_SIZE * 1000],
     [x |-> 0, z |-> -GRID_SIZE * 1000] >>

\* spreadDue with >= in the place of > (C23).
spreadDueAtInterval(spreadTime, gameSpeed) ==
  gameSpeed > 0 /\ spreadTime * gameSpeed >= FIRE_SPREAD_RATE * 9000

\* fire.spreadTime > FIRE_SPREAD_RATE / gameState.gameSpeed, the quotient
\* being +Infinity for gameSpeed 0.
spreadDue(spreadTime, gameSpeed) ==
  IF gameSpeed > 0 THEN spreadTime * gameSpeed > FIRE_SPREAD_RATE * 9000
  ELSE IF gameSpeed = 0 THEN FALSE
  ELSE spreadTime * gameSpeed < FIRE_SPREAD_RATE * 9000

\* spreadTo without the test !newFires.has(newKey) of line 677 (C21).
spreadToOverwriting(s, i, dir, draws) ==
  LET fire == s.w.fires[i]
      used == [s EXCEPT !.at = s.at + 1]
      newX == fire.x + dir.x + windDirection.x * GRID_SIZE
      newZ == fire.z + dir.z + windDirection.z * GRID_SIZE
      halfWorld == (WORLD_SIZE \div 2) * 1000
      withMesh == addMesh(s.w)
      cell == [key |-> gridKey(newX, newZ), x |-> gridFloor(newX), z |-> gridFloor(newZ),
               intensity |-> 300, spreadTime |-> 0,
               mesh |-> Len(s.w.released) + 1]
  IN  IF /\ draw(draws, s.at) * 100 < fire.intensity * windSpeed * 2
         /\ Abs(newX) < halfWorld
         /\ Abs(newZ) < halfWorld
        THEN [used EXCEPT !.w = [withMesh EXCEPT !.fires = mapSet(@, cell)]]
        ELSE used

\* spreadTo with the bounds test of line 677 one grid step wider: a target
\* between halfWorld and halfWorld + GRID_SIZE is stored (C32).
spreadToPastEdge(s, i, dir, draws) ==
  LET fire == s.w.fires[i]
      used == [s EXCEPT !.at = s.at + 1]
      newX == fire.x + dir.x + windDirection.x * GRID_SIZE
      newZ == fire.z + dir.z + windDirection.z * GRID_SIZE
      newKey == gridKey(newX, newZ)
      pastEdge == (WORLD_SIZE \div 2 + GRID_SIZE) * 1000
      withMesh == addMesh(s.w)
      cell == [key |-> newKey, x |-> gridFloor(newX), z |-> gridFloor(newZ),
               intensity |-> 300, spreadTime |-> 0,
               mesh |-> Len(s.w.released) + 1]
  IN  IF /\ draw(draws, s.at) * 100 < fire.intensity * windSpeed * 2
         /\ Abs(newX) < pastEdge
         /\ Abs(newZ) < pastEdge
         /\ ~has(s.w.fires, newKey)
        THEN [used EXCEPT !.w = [withMesh EXCEPT !.fires = mapSet(@, cell)]]
        ELSE used

\* One pass of the loop over directions (lines 670-746) for cell i.
\* s is [w, at]: the world and the number of draws used.
spreadTo(s, i, dir, draws) ==
  LET fire == s.w.fires[i]
      used == [s EXCEPT !.at = s.at + 1]
      newX == fire.x + dir.x + windDirection.x * GRID_SIZE
      newZ == fire.z + dir.z + windDirection.z * GRID_SIZE
      newKey == gridKey(newX, newZ)
      halfWorld == (WORLD_SIZE \div 2) * 1000
      withMesh == addMesh(s.w)
      cell == [key |-> newKey, x |-> gridFloor(newX), z |-> gridFloor(newZ),
               intensity |-> 300, spreadTime |-> 0,
               mesh |-> Len(s.w.released) + 1]
  IN  \* Math.random() < fire.intensity * windSpeed * 0.2
      IF draw(draws, s.at) * 100 < fire.intensity * windSpeed * 2
        THEN IF /\ Abs(newX) < halfWorld
                /\ Abs(newZ) < halfWorld
                /\ ~has(s.w.fires, newKey)
               THEN [used EXCEPT !.w = [withMesh EXCEPT !.fires = mapSet(@, cell)]]
               ELSE used
        ELSE used

RECURSIVE spreadAll(_, _, _, _)
spreadAll(s, i, d, draws) ==
  IF d > Len(directions) THEN s
  ELSE spreadAll(spreadTo(s, i, directions[d], draws), i, d + 1, draws)

\* grow without the cap of line 637: intensities leave [0,1] (C1).
growUncapped(intensity, deltaTime) == intensity + deltaTime * 10

\* Math.min(1, fire.intensity + deltaTime * 0.1) (line 637): 0.1 per second
\* is 10 thousandths per tenth.
grow(intensity, deltaTime) == Min(1000, intensity + deltaTime * 10)

\* Lines 636-637 and the reset of line 659 for a cell whose spread is due.
aged(fire, deltaTime, due) ==
  [fire EXCEPT !.intensity = grow(fire.intensity, deltaTime),
               !.spreadTime = IF due THEN 0 ELSE fire.spreadTime + deltaTime]

updateDue(s, i, deltaTime, draws, due) ==
  IF due
    THEN spreadAll([s EXCEPT !.w.fires[i] = aged(s.w.fires[i], deltaTime, TRUE)],
                   i, 1, draws)
    ELSE [s EXCEPT !.w.fires[i] = aged(s.w.fires[i], deltaTime, FALSE)]

\* The body of the loop over newFires (lines 635-748) for cell i.
updateFire(s, i, deltaTime, gameSpeed, draws) ==
  updateDue(s, i, deltaTime, draws,
            spreadDue(s.w.fires[i].spreadTime + deltaTime, gameSpeed))

\* for (const [key, fire] of newFires): the cells appended during the loop
\* are visited by it.
RECURSIVE updateFiresFrom(_, _, _, _, _)
updateFiresFrom(s, i, deltaTime, gameSpeed, draws) ==
  IF i > Len(s.w.fires) THEN s
  ELSE updateFiresFrom(updateFire(s, i, deltaTime, gameSpeed, draws),
                       i + 1, deltaTime, gameSpeed, draws)

\* updateFires with a second pass over the map: every cell is visited
\* twice in one call (C33).
updateFiresRevisiting(w, deltaTime, gameSpeed, draws) ==
  updateFiresFrom(updateFiresFrom([w |-> w, at |-> 0], 1, deltaTime, gameSpeed, draws),
                  1, deltaTime, gameSpeed, draws)

\* The result is [w, at]: the world, and the number of Math.random() values
\* the spread attempts used.
updateFires(w, deltaTime, gameSpeed, draws) ==
  updateFiresFrom([w |-> w, at |-> 0], 1, deltaTime, gameSpeed, draws)

\* dirToFire . waterDirection (lines 771-777), in millionths.
dotProduct(dirToFire, rotation) ==
  dirToFire.x * Sin(rotation) + dirToFire.z * (-Cos(rotation))

\* inWater with a cell at the range itself reached (C24).
inWaterAtRange(player, fire) ==
  /\ ~DistGreater(player.x - fire.x, player.z - fire.z, WATER_RANGE * 1000)
  /\ dotProduct(normalize3D(fire.x - player.x, fire.z - player.z),
                player.rotation) > 400000

\* Whether the water reaches a cell: in range and inside the cone
\* (lines 761-779).
inWater(player, fire) ==
  /\ distance3DLess(player, fire, WATER_RANGE * 1000)
  /\ dotProduct(normalize3D(fire.x - player.x, fire.z - player.z),
                player.rotation) > 400000

\* suppressFire with a rate of 1.0 per second (C14).
suppressFireSlow(w, i, player, deltaTime) ==
  IF ~inWater(player, w.fires[i]) THEN [w |-> w, next |-> i + 1]
  ELSE IF w.fires[i].intensity - 100 * deltaTime <= 0
    THEN [w |-> [releaseMesh(w, w.fires[i].mesh) EXCEPT
                   !.fires = SubSeq(w.fires, 1, i - 1)
                               \o SubSeq(w.fires, i + 1, Len(w.fires))],
          next |-> i]
    ELSE [w |-> [w EXCEPT !.fires[i].intensity = @ - 100 * deltaTime],
          next |-> i + 1]

\* The body of the loop over newFires (lines 760-805) for cell i; the result
\* is the world and the index of the next cell to visit.
suppressFire(w, i, player, deltaTime) ==
  LET fire == w.fires[i]
      \* 1.5 per second is 150 thousandths per tenth
      intensity == fire.intensity - 150 * deltaTime
  IN  IF ~inWater(player, fire) THEN [w |-> w, next |-> i + 1]
      ELSE IF intensity <= 0
        THEN [w |-> [releaseMesh(w, fire.mesh) EXCEPT
                       !.fires = SubSeq(w.fires, 1, i - 1)
                                   \o SubSeq(w.fires, i + 1, Len(w.fires))],
              next |-> i]
        ELSE [w |-> [w EXCEPT !.fires[i].intensity = intensity], next |-> i + 1]

RECURSIVE suppressFrom(_, _, _, _)
suppressNext(r, player, deltaTime) == suppressFrom(r.w, r.next, player, deltaTime)

suppressFrom(w, i, player, deltaTime) ==
  IF i > Len(w.fires) THEN w
  ELSE suppressNext(suppressFire(w, i, player, deltaTime), player, deltaTime)

\* checkWaterFireCollision without the test of the water level in line 759
\* (C29).
checkWaterFireCollisionDry(player, w, deltaTime, keys) ==
  IF " " \in keys
    THEN suppressFrom(w, 1, player, deltaTime)
    ELSE w

\* checkWaterFireCollision without the test of the space key in line 759 (C13).
checkWaterFireCollisionUngated(player, w, deltaTime, keys) ==
  IF player.waterLevel > 0
    THEN suppressFrom(w, 1, player, deltaTime)
    ELSE w

checkWaterFireCollision(player, w, deltaTime, keys) ==
  IF " " \in keys /\ player.waterLevel > 0
    THEN suppressFrom(w, 1, player, deltaTime)
    ELSE w

\* checkGameConditions with a proximity threshold of 1.0 (C8).
checkGameConditionsNear(player, fires) ==
  IF \E j \in 1..Len(fires) : distance3DLess(player, fires[j], 1000) THEN "lost"
  ELSE IF Len(fires) = 0 THEN "won"
  ELSE "playing"

\* checkGameConditions that passes over a cell stored at the player's own
\* position (C31).
checkGameConditionsApart(player, fires) ==
  IF \E j \in 1..Len(fires) :
       /\ distance3DLess(player, fires[j], 1500)
       /\ (fires[j].x # player.x \/ fires[j].z # player.z)
    THEN "lost"
  ELSE IF Len(fires) = 0 THEN "won"
  ELSE "playing"

\* Lines 812-827: the proximity test comes first, then the empty map.
checkGameConditions(player, fires) ==
  IF \E j \in 1..Len(fires) : distance3DLess(player, fires[j], 1500) THEN "lost"
  ELSE IF Len(fires) = 0 THEN "won"
  ELSE "playing"

-----------------------------------------------------------------------------
(* generateTrees (lines 301-337).  draws are the values Math.random()      *)
(* returns; s is [trees, at].                                              *)

\* One pass of the while loop, its first draw being draw number at: the
\* candidate and whether it is pushed.
treeAttempt(trees, at, draws) ==
  LET x == (draw(draws, at) - 500) * (WORLD_SIZE - 5)
      z == (draw(draws, at + 1) - 500) * (WORLD_SIZE - 5)
      nearStation ==
        \E j \in 1..Len(refillStations) :
          DistLess(x - refillStations[j].x, z - refillStations[j].z, 5000)
      nearCenter == DistLess(x, z, 8000)
      \* Math.random() * 0.8 + 1
      treeRadius == 1000 + (draw(draws, at + 2) * 4) \div 5
      nearOtherTree ==
        \E j \in 1..Len(trees) :
          DistLess(x - trees[j].x, z - trees[j].z,
                   trees[j].radius + treeRadius + 1000)
  IN  [placed |-> ~nearStation /\ ~nearCenter /\ ~nearOtherTree,
       tree |-> [x |-> x, z |-> z, radius |-> (treeRadius * 4) \div 5]]

\* The least element of a set of pass numbers, -1 for the empty set.
firstOf(passes) ==
  IF passes = {} THEN -1
  ELSE CHOOSE k \in passes : \A other \in passes : k <= other

\* The state after the while loop whose first placing pass is pass first.
afterTreeAttempts(s, draws, first, maxAttempts) ==
  IF first < 0 THEN [s EXCEPT !.at = s.at + 3 * maxAttempts]
  ELSE [trees |-> Append(s.trees, treeAttempt(s.trees, s.at + 3 * first, draws).tree),
        at |-> s.at + 3 * (first + 1)]

\* The while loop (lines 309-333): the tree list does not change before the
\* pass that pushes, so pass k draws from at + 3 * k and the loop ends with
\* the first pass that places, or after maxAttempts = 200 passes.
treeAttempts(s, draws) ==
  afterTreeAttempts(s, draws,
    firstOf({k \in 0..199 : treeAttempt(s.trees, s.at + 3 * k, draws).placed}),
    200)

RECURSIVE treeLoop(_, _, _)
treeLoop(s, i, draws) ==
  IF i >= 40 \/ Len(s.trees) >= 40 THEN s
  ELSE treeLoop(treeAttempts(s, draws), i + 1, draws)

generateTrees(draws) == treeLoop([trees |-> <<>>, at |-> 0], 0, draws).trees

-----------------------------------------------------------------------------
(* initializeFires (lines 340-450).                                        *)

\* x and z drawn by two Math.random() calls, the first being draw number at
seedPosition(at, draws) ==
  [x |-> (draw(draws, at) - 500) * (WORLD_SIZE - 10),
   z |-> (draw(draws, at + 1) - 500) * (WORLD_SIZE - 10)]

\* The test of one pass of the while loop (lines 358-370) on its candidate.
seedPlaced(fires, p) ==
  /\ ~has(fires, gridKey(p.x, p.z))
  /\ \/ Len(fires) = 0
     \/ \A j \in 1..Len(fires) :
          DistGreater(p.x - fires[j].x, p.z - fires[j].z, 6000)

\* The result of the while loop whose first placing pass is pass first: the
\* number of passes made and whether the last one placed.
seedLoopResult(first) ==
  IF first < 0 THEN [passes |-> 100, placed |-> FALSE]
  ELSE [passes |-> first + 1, placed |-> TRUE]

\* The while loop (lines 353-373), its first draw being draw number at: the
\* map does not change inside it, so pass k draws from at + 2 * k and the
\* loop ends with the first pass that places, or after 100 passes.
seedAttempts(fires, at, draws) ==
  seedLoopResult(
    firstOf({k \in 0..99 : seedPlaced(fires, seedPosition(at + 2 * k, draws))}))

\* fires.set(gridKey, ...) of lines 441-447 with the mesh of lines 383-438:
\* p is the position, fireIntensity the intensity drawn at line 389.
setSeed(w, p, fireIntensity) ==
  [addMesh(w) EXCEPT !.fires =
     mapSet(@, [key |-> gridKey(p.x, p.z), x |-> gridFloor(p.x), z |-> gridFloor(p.z),
                intensity |-> fireIntensity, spreadTime |-> 0,
                mesh |-> Len(w.released) + 1])]

\* The rest of the body after the while loop; afterLoop is the number of the
\* next draw.  The position is that of the placing pass, or the fallback of
\* lines 376-380; the intensity is Math.random() * 0.5 + 0.5.
seedAfter(s, draws, placed, afterLoop) ==
  IF placed
    THEN [at |-> afterLoop + 1,
          w |-> setSeed(s.w, seedPosition(afterLoop - 2, draws),
                        500 + draw(draws, afterLoop) \div 2)]
    ELSE [at |-> afterLoop + 3,
          w |-> setSeed(s.w, seedPosition(afterLoop, draws),
                        500 + draw(draws, afterLoop + 2) \div 2)]

seedTried(s, draws, tried) ==
  seedAfter(s, draws, tried.placed, s.at + 2 + 2 * tried.passes)

\* The body of the loop over i (lines 346-447); s is [w, at].  Lines 348-349
\* draw a first position, which the loop overwrites.
seedFire(s, draws) == seedTried(s, draws, seedAttempts(s.w.fires, s.at + 2, draws))

RECURSIVE seedLoop(_, _, _)
seedLoop(s, i, draws) ==
  IF i >= INITIAL_FIRES THEN s
  ELSE seedLoop(seedFire(s, draws), i + 1, draws)

\* The new map, and the scene with the meshes of its cells added.
initializeFires(w, draws) ==
  seedLoop([w |-> [w EXCEPT !.fires = <<>>], at |-> 0], 0, draws).w

-----------------------------------------------------------------------------
(* The per-frame state updater of gameLoop (lines 904-921).  prev is the   *)
(* state React hands the updater, closure the render whose gameLoop runs:  *)
(* updatePlayer reads its trees and updateFires its gameSpeed.  w carries  *)
(* the scene and the release counts.                                       *)

world(gs, sc, rel) == [fires |-> gs.fires, scene |-> sc, released |-> rel]

\* newState with the terminal check on the map the frame started with: a won
\* game shows one frame late (C7).
newStateLate(prev, updatedPlayer, updatedFires, deltaTime, used) ==
  [gameState |->
     [prev EXCEPT !.player = updatedPlayer,
                  !.fires = updatedFires.fires,
                  !.gameStatus = checkGameConditions(updatedPlayer, prev.fires),
                  !.timeElapsed = prev.timeElapsed + deltaTime,
                  !.gameSpeed = Min(1620, 900 + prev.timeElapsed)],
   scene |-> updatedFires.scene,
   released |-> updatedFires.released,
   drawsUsed |-> used]

\* newState without the Math.min(1.8, ...) of line 919 (C20).
newStateUncapped(prev, updatedPlayer, updatedFires, deltaTime, used) ==
  [gameState |->
     [prev EXCEPT !.player = updatedPlayer,
                  !.fires = updatedFires.fires,
                  !.gameStatus = checkGameConditions(updatedPlayer, updatedFires.fires),
                  !.timeElapsed = prev.timeElapsed + deltaTime,
                  !.gameSpeed = 900 + prev.timeElapsed],
   scene |-> updatedFires.scene,
   released |-> updatedFires.released,
   drawsUsed |-> used]

\* The returned state (lines 912-920); drawsUsed is the number of
\* Math.random() values the frame used.
newState(prev, updatedPlayer, updatedFires, deltaTime, used) ==
  [gameState |->
     [prev EXCEPT !.player = updatedPlayer,
                  !.fires = updatedFires.fires,
                  !.gameStatus = checkGameConditions(updatedPlayer, updatedFires.fires),
                  !.timeElapsed = prev.timeElapsed + deltaTime,
                  \* Math.min(1.8, 1 + prevState.timeElapsed / 90)
                  !.gameSpeed = Min(1620, 900 + prev.timeElapsed)],
   scene |-> updatedFires.scene,
   released |-> updatedFires.released,
   drawsUsed |-> used]

\* suppressed with the suppression on the player the frame started with
\* (C10).
suppressedBeforeMove(prev, updatedPlayer, spread, deltaTime, keys) ==
  newState(prev, updatedPlayer,
           checkWaterFireCollision(prev.player, spread.w, deltaTime, keys),
           deltaTime, spread.at)

\* suppressed with the gate of line 759 on the water level the frame started
\* with (C25).
suppressedOnOldWater(prev, updatedPlayer, spread, deltaTime, keys) ==
  newState(prev, updatedPlayer,
           checkWaterFireCollision(
             [updatedPlayer EXCEPT !.waterLevel = prev.player.waterLevel],
             spread.w, deltaTime, keys),
           deltaTime, spread.at)

\* Lines 909-910: the suppression works on the updated player and on the map
\* the spread returned.
suppressed(prev, updatedPlayer, spread, deltaTime, keys) ==
  newState(prev, updatedPlayer,
           checkWaterFireCollision(updatedPlayer, spread.w, deltaTime, keys),
           deltaTime, spread.at)

gameLoop(prev, closure, sc, rel, deltaTime, keys, draws) ==
  suppressed(prev,
             updatePlayer(prev.player, deltaTime, keys, closure.trees),
             updateFires(world(prev, sc, rel), deltaTime, closure.gameSpeed, draws),
             deltaTime, keys)

\* startGame without the player block of lines 940-946 (C17).
startGameKeepsPlayer(prev, newFires) ==
  [prev EXCEPT !.gameStatus = "playing",
               !.fires = newFires,
               !.timeElapsed = 0,
               !.gameSpeed = 900]

\* The state updater of startGame (lines 935-948).
startGame(prev, newFires) ==
  [prev EXCEPT !.gameStatus = "playing",
               !.fires = newFires,
               !.player = [prev.player EXCEPT !.x = 0, !.z = 0, !.rotation = 0,
                                              !.waterLevel = 100,
                                              !.isRefilling = FALSE],
               !.timeElapsed = 0,
               !.gameSpeed = 900]

\* The loop of resetGame over gameState.fires (lines 957-977); meshes are the
\* meshes of the cells of the rendered map, s is [scene, released].
RECURSIVE releaseAll(_, _, _)
releaseAll(s, meshes, i) ==
  IF i > Len(meshes) THEN s
  ELSE releaseAll([scene |-> s.scene \ {meshes[i]},
                   released |-> [s.released EXCEPT ![meshes[i]] = @ + 1]],
                  meshes, i + 1)

\* What the closures of a render read of the state it rendered.
closureOf(gs, tutorial) ==
  [gameStatus |-> gs.gameStatus,
   gameSpeed |-> gs.gameSpeed,
   trees |-> gs.trees,
   fireMeshes |-> [j \in 1..Len(gs.fires) |-> gs.fires[j].mesh],
   showTutorial |-> tutorial]

-----------------------------------------------------------------------------
(* The inputs of the model: the frame times, the key sets held during a    *)
(* frame, and the values Math.random() returns to the spread stage, to     *)
(* initializeFires and to generateTrees.                                   *)

DeltaTimes == {0, 1, 10, 41}

KeySets == { {" "}, {"w"}, {"arrowleft", " "}, {"w", "d", " "} }

\* No direction ignites; the first direction tried ignites; all directions of
\* the first cell ignite, none of the second, and of the third the first one
\* if its intensity is above 0.833.
SpreadDraws ==
  { [prefix |-> <<>>, cycle |-> <<999>>],
    [prefix |-> <<0>>, cycle |-> <<999>>],
    [prefix |-> <<0, 0, 0, 0, 999, 999, 999, 999, 200>>, cycle |-> <<999>>] }

\* Five cells placed at the first attempt, at (0,-6), (-6,-4), (4,-4), (6,2)
\* and (4,6).
PlacingDraws ==
  { [prefix |-> << 500, 500, 510, 310, 0,
                   500, 500, 304, 370, 998,
                   500, 500, 696, 370, 400,
                   500, 500, 760, 630, 0,
                   500, 500, 640, 760, 600 >>,
     cycle |-> <<500>>] }

\* And every draw the same, so that each later seed collides with the first
\* one in all its attempts and falls back onto its cell (-4,-4).
SeedDraws == PlacingDraws \cup { [prefix |-> <<>>, cycle |-> <<400>>] }

\* One tree at (0, -12.005); three trees.  The draws after them fall on the
\* world centre, where no tree is placed.
TreeDraws ==
  { [prefix |-> <<500, 157, 500>>, cycle |-> <<500>>],
    [prefix |-> <<500, 157, 500,  800, 500, 0,  200, 500, 250>>, cycle |-> <<500>>] }

\* generateTrees of each of them.
generatedTrees == [draws \in TreeDraws |-> generateTrees(draws)]

-----------------------------------------------------------------------------
(* The state after the component has mounted: initScene has generated the  *)
(* trees, the tutorial is shown, the game loop is scheduled.               *)

Init ==
  /\ \E draws \in TreeDraws :
       gameState = [player |-> initialPlayer,
                    fires |-> <<>>,
                    gameStatus |-> "tutorial",
                    timeElapsed |-> 0,
                    gameSpeed |-> 900,
                    trees |-> generatedTrees[draws]]
  /\ showTutorial = TRUE
  /\ rendered = closureOf(gameState, TRUE)
  /\ scheduled = closureOf(gameState, TRUE)
  /\ scene = {}
  /\ released = <<>>
  /\ lastDelta = 0
  /\ lastKeys = {}
  /\ lastDraws = <<>>
  /\ ticks = 0
  /\ starts = 0

\* A click is a discrete event: React renders and runs the effects before the
\* next event.
flushed ==
  /\ rendered' = closureOf(gameState', showTutorial')
  /\ scheduled' = rendered'

\* The state after the updater has returned r; the inputs of the frame are
\* recorded, the draws only if the frame used one.
committed(r, deltaTime, keys, draws) ==
  /\ Abs(r.gameState.player.rotation) <= MaxRotation
  /\ gameState' = r.gameState
  /\ scene' = r.scene
  /\ released' = r.released
  /\ lastDelta' = deltaTime
  /\ lastKeys' = keys
  /\ lastDraws' = IF r.drawsUsed = 0 THEN <<>> ELSE draws

\* An animation frame runs the scheduled gameLoop, which saw status playing:
\* setGameState applies the updater of lines 904-921.  deltas are the values
\* (currentTime - lastFrameTimeRef.current) / 1000 of line 892 can take.
\* keySets are the values keysRef.current can have.
tickedOn(deltas, keySets) ==
  /\ scheduled.gameStatus = "playing"
  /\ ticks < MaxTicks
  /\ \E deltaTime \in deltas, keys \in keySets, draws \in SpreadDraws :
       committed(gameLoop(gameState, scheduled, scene, released, deltaTime, keys, draws),
                 deltaTime, keys, draws)
  /\ ticks' = ticks + 1
  /\ UNCHANGED <<showTutorial, starts>>

tickedWith(deltas) == tickedOn(deltas, KeySets)

ticked == tickedWith(DeltaTimes)

\* The frame, with the render of its new state and the effect of that
\* render still to come: the gameLoop requested at line 929 is the one that
\* has just run.
Frame == ticked /\ UNCHANGED <<rendered, scheduled>>

\* An animation frame runs a gameLoop that saw another status: it renders and
\* requests the next frame.
IdleFrame ==
  /\ scheduled.gameStatus # "playing"
  /\ UNCHANGED vars

\* React renders the component with the current state.
Render ==
  /\ rendered # closureOf(gameState, showTutorial)
  /\ rendered' = closureOf(gameState, showTutorial)
  /\ UNCHANGED <<gameState, showTutorial, scheduled, scene, released,
                 lastDelta, lastKeys, lastDraws, ticks, starts>>

\* The effect of lines 1041-1048 runs after the render: it cancels the pending
\* frame and requests one for the gameLoop of that render.
Effect ==
  /\ scheduled # rendered
  /\ scheduled' = rendered
  /\ UNCHANGED <<gameState, showTutorial, rendered, scene, released,
                 lastDelta, lastKeys, lastDraws, ticks, starts>>

\* startGame (lines 933-950) once initializeFires has returned w.
started(prev, w) ==
  /\ gameState' = startGame(prev, w.fires)
  /\ scene' = w.scene
  /\ released' = w.released
  /\ showTutorial' = FALSE
  /\ starts' = starts + 1
  /\ flushed
  /\ UNCHANGED <<lastDelta, lastKeys, lastDraws, ticks>>

\* The start button of the tutorial modal (line 1182), the draws of
\* initializeFires being among seeds.
StartGameWith(seeds) ==
  /\ rendered.showTutorial
  /\ starts < MaxStarts
  /\ \E draws \in seeds :
       started(gameState, initializeFires(world(gameState, scene, released), draws))

StartGame == StartGameWith(SeedDraws)

\* regenerateTrees and startGame of resetGame (lines 980-983) once the loop
\* over the rendered fires has left the scene as cleared.
restarted(cleared, newTrees, draws) ==
  started([gameState EXCEPT !.trees = newTrees],
          initializeFires([fires |-> <<>>, scene |-> cleared.scene,
                           released |-> cleared.released], draws))

\* The Try Again button of the game-over modal (line 1222): resetGame.
ResetGameWith(seeds) ==
  /\ rendered.gameStatus \in {"won", "lost"}
  /\ starts < MaxStarts
  /\ \E treeDraws \in TreeDraws, draws \in seeds :
       restarted(releaseAll([scene |-> scene, released |-> released],
                            rendered.fireMeshes, 1),
                 generatedTrees[treeDraws], draws)

ResetGame == ResetGameWith(SeedDraws)

\* The Instructions button of the game-over modal (lines 1225-1229).
Instructions ==
  /\ rendered.gameStatus \in {"won", "lost"}
  /\ showTutorial' = TRUE
  /\ gameState' = [gameState EXCEPT !.gameStatus = "tutorial"]
  /\ flushed
  /\ UNCHANGED <<scene, released, lastDelta, lastKeys, lastDraws, ticks, starts>>

Next ==
  \/ Frame
  \/ IdleFrame
  \/ Render
  \/ Effect
  \/ StartGame
  \/ ResetGame
  \/ Instructions

Spec == Init /\ [][Next]_vars

\* The program in the schedule in which React has rendered the state of a
\* frame and run the effect of that render before the next animation frame,
\* and in which the while loop of initializeFires places every seed: no
\* gameLoop of an earlier render runs, and the fallback of lines 376-380 is
\* not taken.
FrameSettled == ticked /\ flushed

StartPlaced == StartGameWith(PlacingDraws)

ResetPlaced == ResetGameWith(PlacingDraws)

NextSettled ==
  \/ FrameSettled
  \/ IdleFrame
  \/ StartPlaced
  \/ ResetPlaced
  \/ Instructions

SpecSettled == Init /\ [][NextSettled]_vars

-----------------------------------------------------------------------------
(* The program with callbacks whose timestamp is below the one of the      *)
(* frame before: line 892 subtracts the two and nothing clamps the         *)
(* difference.                                                             *)

SignedDeltaTimes == {-10, 0, 10}

FrameSigned == tickedWith(SignedDeltaTimes) /\ UNCHANGED <<rendered, scheduled>>

NextSigned ==
  \/ FrameSigned
  \/ IdleFrame
  \/ Render
  \/ Effect
  \/ StartPlaced
  \/ ResetPlaced
  \/ Instructions

SpecSigned == Init /\ [][NextSigned]_vars

-----------------------------------------------------------------------------
(* The suppression stage on its own: checkWaterFireCollision applied to a  *)
(* player standing at the origin and a map with a cell at (0,-4), four     *)
(* units in front of heading 0, alone or with a cell at (0,-10), which is  *)
(* out of range.                                                           *)

\* Heading 0 faces -z; 6 and 7 steps of 0.192 rad are the headings on both
\* sides of the edge of the cone; 16 steps (3.07 rad) face +z.
ScenarioHeadings == {0, 6, 7, 16}

ScenarioIntensities == {50, 500}

ScenarioWater == {0, 100}

ScenarioKeys == { {}, {" "} }

scenarioCell(z, intensity, mesh) ==
  [key |-> gridKey(0, z), x |-> 0, z |-> z, intensity |-> intensity,
   spreadTime |-> 0, mesh |-> mesh]

InitSuppression ==
  /\ \E rotation \in ScenarioHeadings, intensity \in ScenarioIntensities,
        water \in ScenarioWater, far \in BOOLEAN, draws \in TreeDraws :
       /\ gameState =
            [player |-> [initialPlayer EXCEPT !.rotation = rotation,
                                              !.waterLevel = water],
             fires |-> IF far
                         THEN <<scenarioCell(-4000, intensity, 1),
                                scenarioCell(-10000, 500, 2)>>
                         ELSE <<scenarioCell(-4000, intensity, 1)>>,
             gameStatus |-> "playing",
             timeElapsed |-> 0,
             gameSpeed |-> 900,
             trees |-> generatedTrees[draws]]
       /\ scene = IF far THEN {1, 2} ELSE {1}
       /\ released = IF far THEN <<0, 0>> ELSE <<0>>
  /\ showTutorial = FALSE
  /\ rendered = closureOf(gameState, FALSE)
  /\ scheduled = closureOf(gameState, FALSE)
  /\ lastDelta = 0
  /\ lastKeys = {}
  /\ lastDraws = <<>>
  /\ ticks = 0
  /\ starts = 1

\* The state once the stage has returned w.
stageReturned(w, deltaTime, keys) ==
  /\ gameState' = [gameState EXCEPT !.fires = w.fires]
  /\ scene' = w.scene
  /\ released' = w.released
  /\ lastDelta' = deltaTime
  /\ lastKeys' = keys
  /\ ticks' = ticks + 1
  /\ UNCHANGED <<showTutorial, rendered, scheduled, lastDraws, starts>>

SuppressionStage ==
  /\ ticks < MaxTicks
  /\ \E deltaTime \in DeltaTimes, keys \in ScenarioKeys :
       stageReturned(checkWaterFireCollision(gameState.player,
                                             world(gameState, scene, released),
                                             deltaTime, keys),
                     deltaTime, keys)

SpecSuppression == InitSuppression /\ [][SuppressionStage]_vars

-----------------------------------------------------------------------------
(* The player stage on its own: updatePlayer applied to a player standing  *)
(* at the spawn position or near the tree at (0, -12.005), 3, 1.5 and 2    *)
(* units from its centre.                                                  *)

PlayerStarts ==
  { [x |-> 0, z |-> 0], [x |-> 0, z |-> -9000],
    [x |-> 0, z |-> -10500], [x |-> 0, z |-> -14000] }

PlayerHeadings == {-1, 0, 1}

PlayerKeys == { {"w"}, {"s"}, {"arrowleft"}, {"arrowleft", "w"}, {"arrowright", "w"} }

InitPlayer ==
  /\ \E at \in PlayerStarts, rotation \in PlayerHeadings, draws \in TreeDraws :
       gameState =
         [player |-> [initialPlayer EXCEPT !.x = at.x, !.z = at.z,
                                           !.rotation = rotation],
          fires |-> <<>>,
          gameStatus |-> "playing",
          timeElapsed |-> 0,
          gameSpeed |-> 900,
          trees |-> generatedTrees[draws]]
  /\ scene = {}
  /\ released = <<>>
  /\ showTutorial = FALSE
  /\ rendered = closureOf(gameState, FALSE)
  /\ scheduled = closureOf(gameState, FALSE)
  /\ lastDelta = 0
  /\ lastKeys = {}
  /\ lastDraws = <<>>
  /\ ticks = 0
  /\ starts = 1

\* The state once updatePlayer has returned updatedPlayer.
playerReturned(updatedPlayer, deltaTime, keys) ==
  /\ Abs(updatedPlayer.rotation) <= MaxRotation
  /\ gameState' = [gameState EXCEPT !.player = updatedPlayer]
  /\ lastDelta' = deltaTime
  /\ lastKeys' = keys
  /\ ticks' = ticks + 1
  /\ UNCHANGED <<showTutorial, rendered, scheduled, scene, released, lastDraws,
                 starts>>

PlayerStage ==
  /\ ticks < MaxTicks
  /\ \E deltaTime \in DeltaTimes, keys \in PlayerKeys :
       playerReturned(updatePlayer(gameState.player, deltaTime, keys, scheduled.trees),
                      deltaTime, keys)

SpecPlayer == InitPlayer /\ [][PlayerStage]_vars

-----------------------------------------------------------------------------
(* The program with frames that come late: the browser runs no animation   *)
(* frame while the tab is hidden, and the first callback after that has    *)
(* the whole pause as its deltaTime (line 892).                            *)

\* 1 s, 40 s and 80 s: 1 + 40/90 is below the cap 1.8 of line 919 and
\* 1 + 80/90 is above it.
LongDeltaTimes == {10, 400, 800}

FrameLong == tickedWith(LongDeltaTimes) /\ UNCHANGED <<rendered, scheduled>>

NextLong ==
  \/ FrameLong
  \/ IdleFrame
  \/ Render
  \/ Effect
  \/ StartPlaced
  \/ ResetPlaced
  \/ Instructions

SpecLong == Init /\ [][NextLong]_vars

-----------------------------------------------------------------------------
(* The spread stage on its own: updateFires applied to a map with a cell   *)
(* in the middle of the world or at its east or west edge, alone or with   *)
(* a burning neighbour to its east.                                        *)

SpreadOrigins ==
  { [x |-> 0, z |-> -6000], [x |-> 18000, z |-> 0], [x |-> -18000, z |-> 0] }

SpreadIntensities == {300, 1000}

\* 4 s is the spread interval at difficulty 1, 3 s is above the interval
\* 4 / 1.8 of the highest difficulty.
SpreadTimes == {0, 30, 40}

SpreadSpeeds == {900, 1620}

spreadCell(x, z, intensity, spreadTime, mesh) ==
  [key |-> gridKey(x, z), x |-> x, z |-> z, intensity |-> intensity,
   spreadTime |-> spreadTime, mesh |-> mesh]

\* The burning neighbour of the first cell: the cell east of it, or the
\* cell west of it where the east one would lie outside the grid.
neighbourX(x) ==
  IF x + GRID_SIZE * 1000 < (WORLD_SIZE \div 2) * 1000
    THEN x + GRID_SIZE * 1000
    ELSE x - GRID_SIZE * 1000

InitSpread ==
  /\ \E at \in SpreadOrigins, intensity \in SpreadIntensities,
        spreadTime \in SpreadTimes, gameSpeed \in SpreadSpeeds,
        neighbour \in BOOLEAN, draws \in TreeDraws :
       /\ gameState =
            [player |-> initialPlayer,
             fires |-> IF neighbour
                         THEN <<spreadCell(at.x, at.z, intensity, spreadTime, 1),
                                spreadCell(neighbourX(at.x), at.z, 1000, 0, 2)>>
                         ELSE <<spreadCell(at.x, at.z, intensity, spreadTime, 1)>>,
             gameStatus |-> "playing",
             timeElapsed |-> 0,
             gameSpeed |-> gameSpeed,
             trees |-> generatedTrees[draws]]
       /\ scene = IF neighbour THEN {1, 2} ELSE {1}
       /\ released = IF neighbour THEN <<0, 0>> ELSE <<0>>
  /\ showTutorial = FALSE
  /\ rendered = closureOf(gameState, FALSE)
  /\ scheduled = closureOf(gameState, FALSE)
  /\ lastDelta = 0
  /\ lastKeys = {}
  /\ lastDraws = <<>>
  /\ ticks = 0
  /\ starts = 1

\* The state once the stage has returned s = [w, at].
spreadReturned(s, deltaTime, draws) ==
  /\ gameState' = [gameState EXCEPT !.fires = s.w.fires]
  /\ scene' = s.w.scene
  /\ released' = s.w.released
  /\ lastDelta' = deltaTime
  /\ lastDraws' = IF s.at = 0 THEN <<>> ELSE draws
  /\ ticks' = ticks + 1
  /\ UNCHANGED <<showTutorial, rendered, scheduled, lastKeys, starts>>

SpreadStage ==
  /\ ticks < MaxTicks
  /\ \E deltaTime \in DeltaTimes, draws \in SpreadDraws :
       spreadReturned(updateFires(world(gameState, scene, released), deltaTime,
                                  scheduled.gameSpeed, draws),
                      deltaTime, draws)

SpecSpread == InitSpread /\ [][SpreadStage]_vars

\* The loop over the directions (lines 670-746) on its own, for one cell of
\* the map: the four spread attempts of a cell whose timer has run out.
SpreadAttempts ==
  /\ ticks < MaxTicks
  /\ \E i \in 1..Len(gameState.fires), draws \in SpreadDraws :
       spreadReturned(spreadAll([w |-> world(gameState, scene, released), at |-> 0],
                                i, 1, draws),
                      0, draws)

SpecAttempts == InitSpread /\ [][SpreadAttempts]_vars

-----------------------------------------------------------------------------
(* The suppression stage on a map with cells around the player at the      *)
(* origin: in front of heading 0 at 4 and at the range 8 itself, at the    *)
(* player's position, to the front right, to the left and behind.          *)

\* 0.15 is what 0.1 s of water takes at 1.5 per second.
ConeIntensities == {150, 500}

coneCell(x, z, intensity, mesh) ==
  [key |-> gridKey(x, z), x |-> x, z |-> z, intensity |-> intensity,
   spreadTime |-> 0, mesh |-> mesh]

InitCone ==
  /\ \E rotation \in ScenarioHeadings, intensity \in ConeIntensities,
        water \in ScenarioWater, draws \in TreeDraws :
       gameState =
         [player |-> [initialPlayer EXCEPT !.rotation = rotation,
                                           !.waterLevel = water],
          fires |-> << coneCell(0, -4000, intensity, 1),
                       coneCell(0, 0, intensity, 2),
                       coneCell(0, -8000, intensity, 3),
                       coneCell(4000, -4000, intensity, 4),
                       coneCell(-6000, -2000, intensity, 5),
                       coneCell(2000, 4000, intensity, 6) >>,
          gameStatus |-> "playing",
          timeElapsed |-> 0,
          gameSpeed |-> 900,
          trees |-> generatedTrees[draws]]
  /\ scene = 1..6
  /\ released = <<0, 0, 0, 0, 0, 0>>
  /\ showTutorial = FALSE
  /\ rendered = closureOf(gameState, FALSE)
  /\ scheduled = closureOf(gameState, FALSE)
  /\ lastDelta = 0
  /\ lastKeys = {}
  /\ lastDraws = <<>>
  /\ ticks = 0
  /\ starts = 1

SpecCone == InitCone /\ [][SuppressionStage]_vars

-----------------------------------------------------------------------------
(* The player stage near the refill station at (-15, -15), radius 3: the   *)
(* player stands at its centre, 2.5 from it, at the radius itself, or 3.5  *)
(* from it, with an empty, a half-full or a full tank.                     *)

RefillStarts ==
  { [x |-> -15000, z |-> -15000], [x |-> -15000, z |-> -12500],
    [x |-> -15000, z |-> -12000], [x |-> -15000, z |-> -11500] }

RefillWater == {0, 50, 100}

RefillKeys == { {}, {" "}, {"w"}, {"w", " "} }

InitRefill ==
  /\ \E at \in RefillStarts, water \in RefillWater, draws \in TreeDraws :
       gameState =
         [player |-> [initialPlayer EXCEPT !.x = at.x, !.z = at.z,
                                           !.waterLevel = water],
          fires |-> <<>>,
          gameStatus |-> "playing",
          timeElapsed |-> 0,
          gameSpeed |-> 900,
          trees |-> generatedTrees[draws]]
  /\ scene = {}
  /\ released = <<>>
  /\ showTutorial = FALSE
  /\ rendered = closureOf(gameState, FALSE)
  /\ scheduled = closureOf(gameState, FALSE)
  /\ lastDelta = 0
  /\ lastKeys = {}
  /\ lastDraws = <<>>
  /\ ticks = 0
  /\ starts = 1

RefillStage ==
  /\ ticks < MaxTicks
  /\ \E deltaTime \in DeltaTimes, keys \in RefillKeys :
       playerReturned(updatePlayer(gameState.player, deltaTime, keys, scheduled.trees),
                      deltaTime, keys)

SpecRefill == InitRefill /\ [][RefillStage]_vars

-----------------------------------------------------------------------------
(* The program with a start whose first seed is drawn onto the grid cell   *)
(* of the spawn position, and with frames in which no key is held.         *)

\* Seeds at (0,0), (-6,-4), (6,-4), (6,4) and (-6,4), each placed at its
\* first attempt: the first position drawn is (0.3, 0.3).
SpawnDraws ==
  { [prefix |-> << 500, 500, 510, 510, 0,
                   500, 500, 304, 370, 998,
                   500, 500, 760, 370, 400,
                   500, 500, 760, 640, 0,
                   500, 500, 304, 640, 600 >>,
     cycle |-> <<500>>] }

SpawnKeys == { {}, {"w"}, {" "} }

\* The frame with the render of its new state and the effect of that render
\* done before the next event, as in FrameSettled.
FrameSpawn == tickedOn(DeltaTimes, SpawnKeys) /\ flushed

StartSpawn == StartGameWith(SpawnDraws \cup PlacingDraws)

ResetSpawn == ResetGameWith(SpawnDraws \cup PlacingDraws)

NextSpawn ==
  \/ FrameSpawn
  \/ IdleFrame
  \/ StartSpawn
  \/ ResetSpawn
  \/ Instructions

SpecSpawn == Init /\ [][NextSpawn]_vars

-----------------------------------------------------------------------------
(* The spread stage with draws that ignite the east and the west attempt   *)
(* of every cell: in a frame longer than the spread interval the cells     *)
(* inserted are visited and spread in the same call, along the row of the  *)
(* first cell up to both edges of the world.                               *)

CascadeDraws == { [prefix |-> <<>>, cycle |-> <<0, 0, 999, 999>>] }

MaxCascades == 1

CascadeStage ==
  /\ ticks < MaxCascades
  /\ \E deltaTime \in DeltaTimes, draws \in CascadeDraws \cup SpreadDraws :
       spreadReturned(updateFires(world(gameState, scene, released), deltaTime,
                                  scheduled.gameSpeed, draws),
                      deltaTime, draws)

SpecCascade == InitSpread /\ [][CascadeStage]_vars

-----------------------------------------------------------------------------
(* The properties.  A step is a tick when it is a Frame step: the only     *)
(* action that changes ticks.                                              *)

fires == gameState.fires
player == gameState.player

\* the meshes owned by the cells of the current fire map
owned == {fires[j].mesh : j \in 1..Len(fires)}

\* a cell of the map within the proximity threshold 1.5 of the player
near(p, cells) == \E j \in 1..Len(cells) : distance3DLess(p, cells[j], 1500)

\* C1: after start or restart and any number of ticks with deltaTime >= 0,
\* every cell held in the fire map has an intensity in [0,1].
C1_IntensityInUnitInterval ==
  \A j \in 1..Len(fires) : fires[j].intensity >= 0 /\ fires[j].intensity <= 1000

\* A tick of 4.1 s has grown a seed cell to the cap, and the map also holds
\* a cell below it.
C1_Witness ==
  /\ ticks > 0
  /\ lastDelta = 41
  /\ \E j \in 1..Len(fires) : fires[j].intensity = 1000
  /\ \E j \in 1..Len(fires) : fires[j].intensity < 1000

\* C2: after start or restart and any number of ticks with deltaTime >= 0,
\* whatever the shoot input and the station proximity, the water level of
\* the player is in [0, maxWater], maxWater being 100.
C2_WaterLevelInRange ==
  /\ player.maxWater = 100
  /\ player.waterLevel >= 0
  /\ player.waterLevel <= player.maxWater

\* The player has shot for a whole tick that would have taken 123 units of
\* water, and stands in a station that has refilled to the cap.
C2_Witness ==
  /\ ticks > 0
  /\ lastDelta = 41
  /\ " " \in lastKeys
  /\ player.isRefilling
  /\ player.waterLevel = player.maxWater

\* C3: no two cells of the fire map have the same grid coordinate, and every
\* cell is stored under the key of its own stored coordinates.
C3_KeysUniqueAndOwn ==
  /\ \A i, j \in 1..Len(fires) :
       i # j => /\ fires[i].key # fires[j].key
                /\ <<fires[i].x, fires[i].z>> # <<fires[j].x, fires[j].z>>
  /\ \A j \in 1..Len(fires) : fires[j].key = gridKey(fires[j].x, fires[j].z)

\* The map holds the five seed cells and a cell created by spread.
C3_Witness ==
  /\ ticks > 0
  /\ Len(fires) > INITIAL_FIRES
  /\ \E j \in 1..Len(fires) : fires[j].x < 0 /\ fires[j].z < 0

\* C4: once the status is won or lost, no tick changes the player, the fire
\* map, the elapsed time, the difficulty or the status.
C4_TerminalStatesHalt ==
  [][(gameState.gameStatus \in {"won", "lost"} /\ ticks' # ticks)
       => gameState' = gameState]_vars

\* C5: no fire mesh is released more than once.
C5_ReleasedAtMostOnce ==
  \A m \in 1..Len(released) : released[m] <= 1

\* C6: every fire mesh in the scene is owned by a cell of the current map.
C6_NoLeakedMesh == scene \subseteq owned

\* C7: a tick whose suppression stage removes the last cell of the fire map
\* ends with status won.
C7_WonInSameTick ==
  [][(ticks' # ticks /\ Len(gameState.fires) > 0 /\ Len(gameState'.fires) = 0)
       => gameState'.gameStatus = "won"]_vars

\* The single cell of the map has been suppressed by the last tick.
C7_Witness ==
  /\ ticks > 0
  /\ lastKeys = {" "}
  /\ Len(fires) = 0
  /\ Len(released) > 0
  /\ gameState.gameStatus = "won"

\* C8: in a tick taken in status playing, a remaining cell within 1.5 of the
\* player makes the status lost; with no cell that close and a map that is
\* not empty the status stays playing; the conditions of won and of lost
\* never hold together.
C8_ProximityDecides ==
  [][(ticks' # ticks /\ gameState.gameStatus = "playing") =>
       /\ near(gameState'.player, gameState'.fires)
            => gameState'.gameStatus = "lost"
       /\ (~near(gameState'.player, gameState'.fires) /\ Len(gameState'.fires) > 0)
            => gameState'.gameStatus = "playing"
       /\ ~(near(gameState'.player, gameState'.fires) /\ Len(gameState'.fires) = 0)
       /\ gameState'.gameStatus = "won" => Len(gameState'.fires) = 0]_vars

\* The first tick has moved the player next to a cell of a map that the
\* suppression left with cells: the game is lost.
C8_Witness ==
  /\ ticks = 1
  /\ "w" \in lastKeys
  /\ near(player, fires)
  /\ gameState.gameStatus = "lost"

\* C9: the status changes only from tutorial to playing by a start, from
\* playing to won or lost by a tick, from won or lost to playing by a
\* restart, and from won or lost to tutorial by the return to the
\* instructions.
C9_StatusTransitions ==
  [][\/ gameState'.gameStatus = gameState.gameStatus
     \/ /\ gameState.gameStatus = "tutorial"
        /\ gameState'.gameStatus = "playing"
        /\ starts' # starts
     \/ /\ gameState.gameStatus = "playing"
        /\ gameState'.gameStatus \in {"won", "lost"}
        /\ ticks' # ticks
     \/ /\ gameState.gameStatus \in {"won", "lost"}
        /\ gameState'.gameStatus = "playing"
        /\ starts' # starts
     \/ /\ gameState.gameStatus \in {"won", "lost"}
        /\ gameState'.gameStatus = "tutorial"
        /\ ticks' = ticks
        /\ starts' = starts]_vars

\* C10: within one frame the suppression works on the player as updated by
\* the frame and on the grown and spread map, and the terminal check on that
\* player and on the map the suppression left.  So a cell the frame started
\* with ends at its grown intensity, less the suppression if the updated
\* player shoots with water left and reaches it, and is gone if that is not
\* above 0; a cell created by the spread likewise, from intensity 0.3; and
\* the status is the terminal check of the final player and map.
C10_StagesInOrder ==
  [][ticks' # ticks =>
       LET p == gameState'.player
           dt == lastDelta'
           shooting == " " \in lastKeys' /\ p.waterLevel > 0
           before == gameState.fires
           after == gameState'.fires
       IN  /\ \A j \in 1..Len(before) :
                LET g == grow(before[j].intensity, dt)
                    hit == shooting /\ inWater(p, before[j])
                IN  IF hit /\ g - 150 * dt <= 0
                      THEN ~has(after, before[j].key)
                      ELSE /\ has(after, before[j].key)
                           /\ after[indexOf(after, before[j].key)].intensity
                                = IF hit THEN g - 150 * dt ELSE g
           /\ \A j \in 1..Len(after) :
                ~has(before, after[j].key) =>
                  after[j].intensity
                    = IF shooting /\ inWater(p, after[j])
                        THEN grow(300, dt) - 150 * dt
                        ELSE grow(300, dt)
           /\ gameState'.gameStatus = checkGameConditions(p, after)]_vars

\* The player has turned and shot in one tick, and the cells that only the
\* new heading reaches are gone: the game is won.
C10_Witness ==
  /\ ticks > 0
  /\ "arrowleft" \in lastKeys
  /\ " " \in lastKeys
  /\ Len(released) = INITIAL_FIRES
  /\ gameState.gameStatus = "won"

\* C11: a frame whose deltaTime is negative is treated as a frame of
\* deltaTime 0: it does not decrease the elapsed time or the spread timer of
\* a cell, its growth step does not lower an intensity (seen on the frames
\* that do not shoot) and its depletion step does not raise the water level
\* (seen on the frames that end outside the stations).
C11_NegativeDeltaClamped ==
  [][(ticks' # ticks /\ lastDelta' < 0) =>
       /\ gameState'.timeElapsed >= gameState.timeElapsed
       /\ \A j \in 1..Len(gameState.fires) :
            has(gameState'.fires, gameState.fires[j].key) =>
              LET after == gameState'.fires[indexOf(gameState'.fires,
                                                    gameState.fires[j].key)]
              IN  /\ after.spreadTime >= gameState.fires[j].spreadTime
                  /\ " " \notin lastKeys'
                       => after.intensity >= gameState.fires[j].intensity
       /\ ~gameState'.player.isRefilling
            => gameState'.player.waterLevel <= gameState.player.waterLevel]_vars

\* C12: after any sequence of player updates from the spawn position the
\* player is within WORLD_SIZE/2 - 2 of the origin on both axes.
C12_PlayerInsideWorld ==
  /\ Abs(player.x) <= (WORLD_SIZE \div 2 - 2) * 1000
  /\ Abs(player.z) <= (WORLD_SIZE \div 2 - 2) * 1000

\* A frame of 4.1 s has moved the player 20.5 forward from the spawn
\* position: it stands on the boundary.
C12_Witness ==
  /\ ticks > 0
  /\ lastDelta = 41
  /\ "w" \in lastKeys
  /\ player.z = -(WORLD_SIZE \div 2 - 2) * 1000

\* C13: the suppression stage with shoot inactive leaves the fire map
\* unchanged, keys, intensities and spread timers, and releases no mesh.
C13_NoShootNoChange ==
  [][(ticks' # ticks /\ " " \notin lastKeys') =>
       /\ gameState'.fires = gameState.fires
       /\ released' = released
       /\ scene' = scene]_vars

\* The stage has run for 1 s without the space key on a player with water
\* whose cone holds a cell: the cell is there as it was.
C13_Witness ==
  /\ ticks > 0
  /\ lastKeys = {}
  /\ lastDelta = 10
  /\ player.waterLevel > 0
  /\ \E j \in 1..Len(fires) : inWater(player, fires[j]) /\ fires[j].intensity = 50
  /\ \A m \in 1..Len(released) : released[m] = 0

\* C14 as stated: with the player at the origin facing +z, a cell at (0,-4),
\* shoot active, water above 0 and deltaTime 0.1, the stage turns intensity
\* 0.5 into 0.35 with the cell retained, and removes a cell of intensity
\* 0.05.
C14_ScenarioFacingPlusZ ==
  [][(/\ ticks' # ticks
      /\ lastDelta' = 1
      /\ " " \in lastKeys'
      /\ player.x = 0 /\ player.z = 0
      /\ -Cos(player.rotation) >= 990
      /\ player.waterLevel > 0
      /\ Len(fires) > 0
      /\ fires[1].x = 0 /\ fires[1].z = -4000) =>
       /\ fires[1].intensity = 500 =>
            /\ Len(gameState'.fires) = Len(fires)
            /\ gameState'.fires[1] = [fires[1] EXCEPT !.intensity = 350]
       /\ fires[1].intensity = 50 =>
            /\ ~has(gameState'.fires, fires[1].key)
            /\ released'[fires[1].mesh] = 1]_vars

\* C14 as amended: the same with the player at heading 0, which faces -z,
\* the side of the cell.
C14_ScenarioHeadingZero ==
  [][(/\ ticks' # ticks
      /\ lastDelta' = 1
      /\ " " \in lastKeys'
      /\ player.x = 0 /\ player.z = 0
      /\ player.rotation = 0
      /\ player.waterLevel > 0
      /\ Len(fires) > 0
      /\ fires[1].x = 0 /\ fires[1].z = -4000) =>
       /\ fires[1].intensity = 500 =>
            /\ Len(gameState'.fires) = Len(fires)
            /\ gameState'.fires[1] = [fires[1] EXCEPT !.intensity = 350]
       /\ fires[1].intensity = 50 =>
            /\ ~has(gameState'.fires, fires[1].key)
            /\ released'[fires[1].mesh] = 1]_vars

\* Scenario A has run at heading 0: the cell is retained at 0.35.
C14_Witness ==
  /\ ticks = 1
  /\ lastDelta = 1
  /\ lastKeys = {" "}
  /\ player.rotation = 0
  /\ Len(fires) = 1
  /\ fires[1].z = -4000
  /\ fires[1].intensity = 350

\* C15: if the candidate position of a move is within trunkRadius + 1 = 1.4
\* of the centre of a tree, the position after the update is the position
\* before it, and the heading has changed by the turn rate times deltaTime
\* for the turn keys held.
C15_TrunkBlocksMove ==
  [][(ticks' # ticks /\ moveVector(lastKeys') # [x |-> 0, z |-> 0]) =>
       LET turned == player.rotation
                       + (IF "arrowleft" \in lastKeys' THEN lastDelta' ELSE 0)
                       - (IF "arrowright" \in lastKeys' THEN lastDelta' ELSE 0)
           c == candidate(player, rotate(moveVector(lastKeys'), turned), lastDelta')
       IN  (\E j \in 1..Len(gameState.trees) :
              DistLess(c.x - gameState.trees[j].x, c.z - gameState.trees[j].z, 1400))
             => /\ gameState'.player.x = player.x
                /\ gameState'.player.z = player.z
                /\ gameState'.player.rotation = turned]_vars

\* The player, 1.5 from the tree and facing it, has held the forward and the
\* left key for 0.1 s: it stands where it stood and has turned by one step.
C15_Witness ==
  /\ ticks = 1
  /\ lastKeys = {"arrowleft", "w"}
  /\ lastDelta = 1
  /\ player.x = 0
  /\ player.z = -10500
  /\ player.rotation = 1

\* C16: every transition out of won or lost, to tutorial or to playing,
\* leaves the player at the origin with heading 0 and full water, the
\* elapsed time at 0, the difficulty at 1, and a fire map of seed cells made
\* by the transition (their meshes are new).  That the trees are drawn anew
\* does not show in the state when the draws repeat.
C16_LeavingTerminalRegenerates ==
  [][(/\ gameState.gameStatus \in {"won", "lost"}
      /\ gameState'.gameStatus \in {"tutorial", "playing"}) =>
       /\ gameState'.player.x = 0
       /\ gameState'.player.z = 0
       /\ gameState'.player.rotation = 0
       /\ gameState'.player.waterLevel = gameState'.player.maxWater
       /\ gameState'.timeElapsed = 0
       /\ gameState'.gameSpeed = 900
       /\ Len(gameState'.fires) > 0
       /\ \A j \in 1..Len(gameState'.fires) :
            /\ gameState'.fires[j].mesh > Len(released)
            /\ gameState'.fires[j].spreadTime = 0
            /\ gameState'.fires[j].intensity >= 500]_vars

\* C17: the start action taken in status tutorial sets the status to
\* playing, puts the player at the origin with heading 0, water 100 and the
\* refilling flag cleared, makes the fire map a set of seed cells made by the
\* action (at most INITIAL_FIRES cells, timers 0, intensity in [0.5, 1),
\* meshes new and in the scene), and sets the elapsed time to 0 and the
\* difficulty to 1, whatever the state before held.
C17_StartFromTutorial ==
  [][(starts' # starts /\ gameState.gameStatus = "tutorial") =>
       /\ gameState'.gameStatus = "playing"
       /\ gameState'.player.x = 0
       /\ gameState'.player.z = 0
       /\ gameState'.player.rotation = 0
       /\ gameState'.player.waterLevel = 100
       /\ gameState'.player.isRefilling = FALSE
       /\ gameState'.timeElapsed = 0
       /\ gameState'.gameSpeed = 900
       /\ gameState'.trees = gameState.trees
       /\ Len(gameState'.fires) \in 1..INITIAL_FIRES
       /\ \A j \in 1..Len(gameState'.fires) :
            /\ gameState'.fires[j].mesh > Len(released)
            /\ gameState'.fires[j].mesh \in scene'
            /\ gameState'.fires[j].spreadTime = 0
            /\ gameState'.fires[j].intensity >= 500
            /\ gameState'.fires[j].intensity < 1000]_vars

\* A second start from the tutorial, reached by the Instructions button after
\* a session in which the player walked and that has released no mesh: the
\* meshes of that session are still in the scene, so the start was not made by
\* Try Again.
C17_Witness ==
  /\ starts = 2
  /\ ticks > 0
  /\ "w" \in lastKeys
  /\ gameState.gameStatus = "playing"
  /\ ~showTutorial
  /\ player.x = 0
  /\ player.z = 0
  /\ gameState.timeElapsed = 0
  /\ \A m \in 1..Len(released) : released[m] = 0
  /\ Len(released) > Len(fires)
  /\ Len(fires) = INITIAL_FIRES

\* C19: generation makes a bounded number of attempts per item, and an item
\* whose attempts all fail is still placed: every generated tree list holds
\* all 40 trees of the loop of generateTrees.
C19_EveryTreePlaced == Len(gameState.trees) = 40

\* C20: with frames of deltaTime >= 0 the difficulty multiplier does not
\* decrease in a tick, lies in [1, 1.8] in every state, and is 1 in the state
\* a start or a restart leaves.
C20_DifficultyMonotoneCapped ==
  /\ [](gameState.gameSpeed >= 900 /\ gameState.gameSpeed <= 1620)
  /\ [][ticks' # ticks => gameState'.gameSpeed >= gameState.gameSpeed]_vars
  /\ [][starts' # starts => gameState'.gameSpeed = 900]_vars

\* The second tick of a session whose first frame took 80 s: 1 + 80/90 has
\* been cut to 1.8.
C20_Witness ==
  /\ ticks = 2
  /\ starts = 1
  /\ lastDelta >= 0
  /\ gameState.timeElapsed >= 800
  /\ gameState.gameSpeed = 1620

\* C21: the spread attempts of a cell insert a cell only at a target inside
\* the world bounds whose key no cell holds; no cell of the map is removed or
\* changed by them (intensity, spread timer and mesh stay), and an inserted
\* cell has intensity 0.3, timer 0 and a mesh of its own.
C21_SpreadNeverOverwrites ==
  [][ticks' # ticks =>
       /\ Len(gameState'.fires) >= Len(fires)
       /\ \A j \in 1..Len(fires) : gameState'.fires[j] = fires[j]
       /\ \A j \in (Len(fires) + 1)..Len(gameState'.fires) :
            /\ ~has(fires, gameState'.fires[j].key)
            /\ \A k \in 1..(j - 1) : gameState'.fires[k].key # gameState'.fires[j].key
            /\ gameState'.fires[j].x >= -(WORLD_SIZE \div 2) * 1000
            /\ gameState'.fires[j].x < (WORLD_SIZE \div 2) * 1000
            /\ gameState'.fires[j].z >= -(WORLD_SIZE \div 2) * 1000
            /\ gameState'.fires[j].z < (WORLD_SIZE \div 2) * 1000
            /\ gameState'.fires[j].intensity = 300
            /\ gameState'.fires[j].spreadTime = 0
            /\ gameState'.fires[j].mesh > Len(released)]_vars

\* The cell at (0,-6) has made its four attempts with draws that all ignite:
\* the cells to the west, south and north are inserted and the burning
\* neighbour to the east is as it was.
C21_Witness ==
  /\ ticks = 1
  /\ lastDraws # <<>>
  /\ Len(lastDraws.prefix) = 9
  /\ Len(fires) = 5
  /\ fires[1].x = 0
  /\ fires[2].x = 2000
  /\ fires[2].intensity = 1000
  /\ fires[2].mesh = 2
  /\ \E j \in 3..5 : fires[j].x = -2000 /\ fires[j].intensity = 300

\* C22: the spread stage of a tick ages and spreads only the cells the map
\* held when the tick began: a cell inserted during the tick leaves the stage
\* with intensity 0.3 and spread timer 0.
C22_InsertedCellsNotAged ==
  [][ticks' # ticks =>
       \A j \in (Len(fires) + 1)..Len(gameState'.fires) :
         /\ gameState'.fires[j].intensity = 300
         /\ gameState'.fires[j].spreadTime = 0]_vars

\* C23: a cell of the map the tick began with attempts spread iff its timer
\* plus deltaTime is strictly above 4 / gameSpeed; then its timer is reset to
\* 0 and each of the four directions is tried once with a draw of its own,
\* otherwise the timer keeps the sum; when no cell is due no draw is made and
\* no cell is created.  (Timers in tenths of a second and gameSpeed in 1/900:
\* 4 s at difficulty 1 is 40 * 900.)
C23_SpreadWhenTimerExceeds ==
  [][ticks' # ticks =>
       /\ Len(gameState'.fires) >= Len(fires)
       /\ \A j \in 1..Len(fires) :
            gameState'.fires[j].spreadTime =
              IF (fires[j].spreadTime + lastDelta') * scheduled.gameSpeed > 36000
                THEN 0 ELSE fires[j].spreadTime + lastDelta'
       /\ (\A j \in 1..Len(fires) :
             (fires[j].spreadTime + lastDelta') * scheduled.gameSpeed <= 36000)
            => (Len(gameState'.fires) = Len(fires) /\ lastDraws' = <<>>)
       /\ (\E j \in 1..Len(fires) :
             (fires[j].spreadTime + lastDelta') * scheduled.gameSpeed > 36000)
            => lastDraws' # <<>>
       /\ (/\ Len(fires) = 1
           /\ fires[1].x = 0
           /\ (fires[1].spreadTime + lastDelta') * scheduled.gameSpeed > 36000
           /\ lastDelta' * scheduled.gameSpeed <= 36000)
            => Len(gameState'.fires) =
                 1 + Cardinality({d \in 0..3 :
                       draw(lastDraws', d) * 100
                         < gameState'.fires[1].intensity * windSpeed * 2})]_vars

\* The timer of the cell has reached the interval exactly, 3 s + 1 s at
\* difficulty 1: no attempt was made.
C23_Witness ==
  /\ ticks = 1
  /\ lastDelta = 10
  /\ scheduled.gameSpeed = 900
  /\ Len(fires) = 1
  /\ fires[1].spreadTime = 40
  /\ lastDraws = <<>>

\* C24: with shoot held and water above 0 the suppression stage takes
\* 1.5 x deltaTime off the intensity of every cell nearer than 8 to the player
\* whose unit direction from the player has a dot product above 0.4 with
\* (sin heading, -cos heading); every other cell is kept as it is, the one at
\* the player's position included; a cell is removed, and its mesh released,
\* iff what is left of its intensity is <= 0.
C24_ConeAndRange ==
  [][(ticks' # ticks /\ " " \in lastKeys' /\ player.waterLevel > 0) =>
       /\ Len(gameState'.fires) <= Len(fires)
       /\ \A k \in 1..Len(gameState'.fires) : has(fires, gameState'.fires[k].key)
       /\ \A j \in 1..Len(fires) :
            IF /\ DistLess(fires[j].x - player.x, fires[j].z - player.z, 8000)
               /\ normalize3D(fires[j].x - player.x, fires[j].z - player.z).x
                    * Sin(player.rotation)
                  + normalize3D(fires[j].x - player.x, fires[j].z - player.z).z
                    * (-Cos(player.rotation)) > 400000
              THEN IF fires[j].intensity - 150 * lastDelta' <= 0
                     THEN /\ ~has(gameState'.fires, fires[j].key)
                          /\ released'[fires[j].mesh] = released[fires[j].mesh] + 1
                     ELSE \E k \in 1..Len(gameState'.fires) :
                            gameState'.fires[k] =
                              [fires[j] EXCEPT !.intensity = @ - 150 * lastDelta']
              ELSE /\ \E k \in 1..Len(gameState'.fires) : gameState'.fires[k] = fires[j]
                   /\ released'[fires[j].mesh] = released[fires[j].mesh]]_vars

\* Heading 0, 0.1 s of water on cells of intensity 0.15: the cells in front
\* at 4 and to the front right are removed; the cells at the player's
\* position, at the range 8 itself, to the left and behind are as they were.
C24_Witness ==
  /\ ticks = 1
  /\ lastDelta = 1
  /\ lastKeys = {" "}
  /\ player.rotation = 0
  /\ player.waterLevel > 0
  /\ Len(fires) = 4
  /\ fires[1].z = 0 /\ fires[1].intensity = 150
  /\ fires[2].z = -8000 /\ fires[2].intensity = 150
  /\ released[1] = 1
  /\ released[4] = 1

\* C25: in a frame with shoot held whose depletion brings the water level
\* from above 0 to 0, the player being inside no refill station, no cell of
\* the map is removed, no intensity is reduced and no mesh is released.
C25_GateOnUpdatedWater ==
  [][(/\ ticks' # ticks
      /\ " " \in lastKeys'
      /\ player.waterLevel > 0
      /\ gameState'.player.waterLevel = 0
      /\ ~gameState'.player.isRefilling) =>
       /\ \A m \in 1..Len(released) : released'[m] = released[m]
       /\ \A j \in 1..Len(fires) :
            \E k \in 1..Len(gameState'.fires) :
              /\ gameState'.fires[k].key = fires[j].key
              /\ gameState'.fires[k].mesh = fires[j].mesh
              /\ gameState'.fires[k].intensity >= fires[j].intensity]_vars

\* A frame of 4.1 s with the space key has emptied the tank of a player who
\* has a cell in range in front: the cell is there, grown, and nothing has
\* been released.
C25_Witness ==
  /\ ticks = 1
  /\ lastDelta = 41
  /\ " " \in lastKeys
  /\ player.waterLevel = 0
  /\ ~player.isRefilling
  /\ \E j \in 1..Len(fires) : inWater(player, fires[j]) /\ fires[j].intensity > 500
  /\ \A m \in 1..Len(released) : released[m] = 0

\* C26: if before a player update the player is at distance >= 1.4 (trunk
\* radius 0.4 plus 1) from the centre of every tree, the player is at
\* distance >= 1.4 from the centre of every tree after it.
C26_TrunksStayClear ==
  [][(/\ ticks' # ticks
      /\ \A t \in 1..Len(gameState.trees) :
           ~DistLess(player.x - gameState.trees[t].x,
                     player.z - gameState.trees[t].z, 1400)) =>
       \A t \in 1..Len(gameState.trees) :
         ~DistLess(gameState'.player.x - gameState.trees[t].x,
                   gameState'.player.z - gameState.trees[t].z, 1400)]_vars

\* C27: the wind shifts the targets of the spread attempts, so the cells a
\* burning cell ignites are not its four plain axis-aligned neighbours (or the
\* directions do not ignite alike).  Stated for the tick in which a lone cell
\* in the middle of the world makes its four attempts, each with a draw below
\* the spread chance, the cells it inserts making no attempt of their own:
\* the cells inserted are not exactly the four plain neighbours.
C27_WindShiftsTargets ==
  [][(/\ ticks' # ticks
      /\ Len(fires) = 1
      /\ fires[1].x = 0
      /\ (fires[1].spreadTime + lastDelta') * scheduled.gameSpeed > 36000
      /\ lastDelta' * scheduled.gameSpeed <= 36000
      /\ lastDraws' # <<>>
      /\ \A d \in 0..3 :
           draw(lastDraws', d) * 100 < gameState'.fires[1].intensity * windSpeed * 2) =>
       {<<gameState'.fires[k].x, gameState'.fires[k].z>> :
          k \in 2..Len(gameState'.fires)}
         # { <<fires[1].x + GRID_SIZE * 1000, fires[1].z>>,
             <<fires[1].x - GRID_SIZE * 1000, fires[1].z>>,
             <<fires[1].x, fires[1].z + GRID_SIZE * 1000>>,
             <<fires[1].x, fires[1].z - GRID_SIZE * 1000>> }]_vars

\* C28: after a player update the refilling flag is true iff the player is
\* strictly inside the radius of a refill station; then the water level left
\* by the shooting of the update has risen by the refill rate x deltaTime
\* (12 per tenth of a second), once, capped at maxWater; otherwise the update
\* adds no water.
C28_RefillInsideStation ==
  [][ticks' # ticks =>
       /\ gameState'.player.isRefilling =
            (\E s \in 1..Len(refillStations) :
               DistLess(gameState'.player.x - refillStations[s].x,
                        gameState'.player.z - refillStations[s].z,
                        refillStations[s].radius))
       /\ gameState'.player.waterLevel =
            IF gameState'.player.isRefilling
              THEN Min(player.maxWater,
                       (IF " " \in lastKeys' /\ player.waterLevel > 0
                          THEN Max(0, player.waterLevel - 3 * lastDelta')
                          ELSE player.waterLevel) + 12 * lastDelta')
              ELSE IF " " \in lastKeys' /\ player.waterLevel > 0
                     THEN Max(0, player.waterLevel - 3 * lastDelta')
                     ELSE player.waterLevel]_vars

\* 0.1 s inside the station while shooting, from a half-full tank: 3 out,
\* 12 in.
C28_Witness ==
  /\ ticks = 1
  /\ lastDelta = 1
  /\ lastKeys = {" "}
  /\ player.x = -15000
  /\ player.z = -12500
  /\ player.isRefilling
  /\ player.waterLevel = 59

\* C29: in a tick in which shoot is inactive or the water level the
\* suppression reads, the one the player update of the tick returned, is 0,
\* every cell of the map stays in the map with its mesh and an intensity that
\* is not lower, and a map that held a cell does not end the tick as won.
C29_CellsLeaveBySuppressionOnly ==
  [][(/\ ticks' # ticks
      /\ \/ " " \notin lastKeys'
         \/ gameState'.player.waterLevel = 0) =>
       /\ \A j \in 1..Len(fires) :
            \E k \in 1..Len(gameState'.fires) :
              /\ gameState'.fires[k].key = fires[j].key
              /\ gameState'.fires[k].mesh = fires[j].mesh
              /\ gameState'.fires[k].intensity >= fires[j].intensity
       /\ Len(fires) > 0 => gameState'.gameStatus # "won"]_vars

\* A second tick with the space key held on a tank the first tick emptied:
\* the cell in front of the player has grown to 1 and the session goes on.
C29_Witness ==
  /\ ticks = 2
  /\ lastDelta > 0
  /\ " " \in lastKeys
  /\ player.waterLevel = 0
  /\ gameState.gameStatus = "playing"
  /\ \E j \in 1..Len(fires) : inWater(player, fires[j]) /\ fires[j].intensity = 1000
  /\ \A m \in 1..Len(released) : released[m] = 0

\* C30: the fire map a start or a restart leaves holds exactly INITIAL_FIRES
\* cells with distinct keys, also when the attempts of a seed are exhausted
\* and the fallback position is used.
C30_FiveSeedsAfterStart ==
  [][starts' # starts =>
       /\ Len(gameState'.fires) = INITIAL_FIRES
       /\ \A j, k \in 1..Len(gameState'.fires) :
            j # k => gameState'.fires[j].key # gameState'.fires[k].key]_vars

\* C31: the seed placement does not keep the fires away from the spawn
\* position.  A tick with no key held, taken by a player standing at the
\* origin in status playing, ends as lost iff a cell of the map it leaves is
\* stored within 1.5 of the origin; the witness is the run in which that is
\* the first tick after a start.
C31_SeedAtSpawnLoses ==
  [][(/\ ticks' # ticks
      /\ lastKeys' = {}
      /\ gameState.gameStatus = "playing"
      /\ player.x = 0 /\ player.z = 0) =>
       /\ gameState'.player.x = 0
       /\ gameState'.player.z = 0
       /\ (gameState'.gameStatus = "lost") =
            (\E j \in 1..Len(gameState'.fires) :
               DistLess(gameState'.fires[j].x, gameState'.fires[j].z, 1500))]_vars

\* The first tick after the start, no key held: the seed stored at (0,0) has
\* ended the session as lost.
C31_Witness ==
  /\ starts = 1
  /\ ticks = 1
  /\ lastKeys = {}
  /\ gameState.timeElapsed = lastDelta
  /\ player.x = 0 /\ player.z = 0
  /\ player.waterLevel = 100
  /\ gameState.gameStatus = "lost"
  /\ \E j \in 1..Len(fires) : fires[j].x = 0 /\ fires[j].z = 0

\* C32: every cell of the fire map has stored coordinates x and z that are
\* multiples of GRID_SIZE within [-WORLD_SIZE/2, WORLD_SIZE/2 - GRID_SIZE],
\* no two cells have the same coordinates, and the map holds at most
\* (WORLD_SIZE/GRID_SIZE)^2 = 400 cells.
C32_CellsInBoundedGrid ==
  /\ \A j \in 1..Len(fires) :
       /\ fires[j].x % (GRID_SIZE * 1000) = 0
       /\ fires[j].z % (GRID_SIZE * 1000) = 0
       /\ fires[j].x >= -(WORLD_SIZE \div 2) * 1000
       /\ fires[j].x <= (WORLD_SIZE \div 2 - GRID_SIZE) * 1000
       /\ fires[j].z >= -(WORLD_SIZE \div 2) * 1000
       /\ fires[j].z <= (WORLD_SIZE \div 2 - GRID_SIZE) * 1000
  /\ \A j, k \in 1..Len(fires) :
       j # k => fires[j].x # fires[k].x \/ fires[j].z # fires[k].z
  /\ Len(fires) <= (WORLD_SIZE \div GRID_SIZE) * (WORLD_SIZE \div GRID_SIZE)

\* One call of 4.1 s has spread a cell along its row to both edges: the map
\* holds the cells stored at x = -20 and at x = 18, and the targets beyond
\* them were turned down.
C32_Witness ==
  /\ ticks = 1
  /\ lastDelta = 41
  /\ \E j \in 1..Len(fires) : fires[j].x = -(WORLD_SIZE \div 2) * 1000
  /\ \E j \in 1..Len(fires) : fires[j].x = (WORLD_SIZE \div 2 - GRID_SIZE) * 1000
  /\ Len(fires) = WORLD_SIZE \div GRID_SIZE

\* C33: a call of updateFires returns, for frames shorter and longer than
\* the spread interval: every cell the call began with is kept under its key
\* and aged once, every cell inserted has a key that was not in the map, is
\* inserted once with one mesh of its own and is aged once in the same call,
\* and the map stays within the 400 cells of the grid.
C33_EachCellOncePerTick ==
  [][ticks' # ticks =>
       /\ Len(gameState'.fires) >= Len(fires)
       /\ Len(gameState'.fires) <= (WORLD_SIZE \div GRID_SIZE) * (WORLD_SIZE \div GRID_SIZE)
       /\ Len(released') - Len(released) = Len(gameState'.fires) - Len(fires)
       /\ \A j \in 1..Len(fires) :
            /\ gameState'.fires[j].key = fires[j].key
            /\ gameState'.fires[j].mesh = fires[j].mesh
            /\ gameState'.fires[j].intensity = grow(fires[j].intensity, lastDelta')
            /\ gameState'.fires[j].spreadTime =
                 IF spreadDue(fires[j].spreadTime + lastDelta', scheduled.gameSpeed)
                   THEN 0 ELSE fires[j].spreadTime + lastDelta'
       /\ \A j \in (Len(fires) + 1)..Len(gameState'.fires) :
            /\ ~has(fires, gameState'.fires[j].key)
            /\ gameState'.fires[j].mesh > Len(released)
            /\ gameState'.fires[j].intensity = grow(300, lastDelta')
            /\ gameState'.fires[j].spreadTime =
                 IF spreadDue(lastDelta', scheduled.gameSpeed) THEN 0 ELSE lastDelta'
       /\ \A j, k \in 1..Len(gameState'.fires) :
            j # k => /\ gameState'.fires[j].key # gameState'.fires[k].key
                     /\ gameState'.fires[j].mesh # gameState'.fires[k].mesh]_vars

\* One call of 4.1 s on a map of one cell has returned the 20 cells of the
\* row: 19 cells were inserted, visited and spread in the call that made
\* them, each aged by one frame.
C33_Witness ==
  /\ ticks = 1
  /\ lastDelta = 41
  /\ lastDraws \in CascadeDraws
  /\ Len(fires) = WORLD_SIZE \div GRID_SIZE
  /\ Len(released) = WORLD_SIZE \div GRID_SIZE
  /\ \A j \in 2..Len(fires) : fires[j].intensity = 710 /\ fires[j].spreadTime = 0


====
